---- MODULE Spec2Model ----
(***************************************************************************)
(* A model of the session and synchronization engine of vscode-webrm:      *)
(* AuthProvider (src/src/auth/authProvider.ts), Connection                 *)
(* (src/src/views/connectionExplorer.ts), ConnectionStatusController       *)
(* (src/src/connectionStatusController.ts), CrmWebAPI.makeApiRequest       *)
(* (src/src/crmWebAPI.ts), the file sync state of src/src/extension.ts and *)
(* the commands of src/src/commandHandlers.ts.                             *)
(*                                                                         *)
(* Every command is an async function: it runs without interruption up to  *)
(* its next await.  A task is one running command; task[t].pc is the await *)
(* at which it is suspended.  Two tasks may be suspended at the same time, *)
(* which is how the extension host runs overlapping commands.              *)
(***************************************************************************)
EXTENDS Integers, FiniteSets, Sequences, TLC

\* ---------------------------------------------------------------- bounds
MaxNow == 2           \* the clock runs over 0..MaxNow (minutes)
MaxOps == 3           \* commands started in one run
MaxOverlap == 2       \* commands started in a run of overlapping commands
MaxDepth == 3         \* segments of a logical name
MaxList == 3          \* web resources of a solution

\* ------------------------------------------------------- program constants
TOKEN_EXPIRATION_BUFFER_MINUTES == 5

\* ------------------------------------------------------------ value sets
None == "none"                         \* undefined / null, where a string is expected
Absent == [absent |-> TRUE]            \* undefined / null, where an object is expected
NoExpiry == 0 - 1                      \* expiresOn null (a Date is a minute >= 0)
Tasks == {1, 2}
Conns == {"id1", "id2"}                \* connection ids (Connection.connectionId)
Accounts == {"alice"}                  \* AccountInfo values the library can return
AccessTokens == {"tok"}                \* opaque access token strings
Lifetimes == {1, 7}                    \* minutes a fresh token lives: inside / outside the buffer
Paths == {"p1"}                        \* local file paths
Resources == {"r1"}                    \* web resource ids
Contents == {"v1", "v2"}               \* file contents
Users == {"alice", "bob"}              \* full names of the users who modify web resources
Labels == {"dev", "test"}              \* display names of connections

\* An AuthenticationResult of the library: expiresOn is Date | null.
Results(t) ==
    [accessToken : AccessTokens,
     expiresOn : {t + l : l \in Lifetimes} \cup {NoExpiry},
     account : Accounts]

VARIABLES
    now,                \* the wall clock
    initialized,        \* AuthProvider.initialized, per connection
    account,            \* AuthProvider.account, per connection
    cache,              \* accounts in the MSAL token cache (AuthProvider.cache), per connection
    cacheKey,           \* AuthProvider.cacheKey, per connection
    lastAuthResult,     \* AuthProvider.lastAuthResult, per connection
    secrets,            \* context.secrets (SecretStorage): key -> blob
    currentConnection,  \* ConnectionStatusController.currentConnection
    isConnected,        \* ConnectionStatusController.isConnected
    webResourceLookup,  \* ConnectionStatusController.webResourceLookup: path -> resource id
    fileSyncState,      \* extension.ts fileSyncState: path -> record
    files,              \* the local file system: path -> content
    remote,             \* the server's content of each web resource
    task,               \* the running commands
    ops,                \* commands started so far
    appClientId,        \* the setting webRM.appClientId (ConfigurationService.getAppClientId)
    clientApplication,  \* AuthProvider.clientApplication: the client id it was built with
    connections,        \* ConnectionExplorer.connections: the ids of the connections
    connectionName,     \* Connection.connectionName of each of them
    listing,            \* the flat list of web resources the server returns
    rootWebResources,   \* WebResourceExplorer.rootWebResources
    built,              \* the calls of setWebResources since the tree was last cleared
    lastSave,           \* history: the sync record before and after the last save of each path
    pulled,             \* history: the connection under which each path was last opened
    baseline            \* history: the contents pulled from or published to the server, per path

vars == <<now, initialized, account, cache, cacheKey, lastAuthResult, secrets,
          currentConnection, isConnected, webResourceLookup, fileSyncState,
          files, remote, task, ops, appClientId, clientApplication, connections,
          connectionName, listing, rootWebResources, built, lastSave, pulled, baseline>>

authVars == <<initialized, account, cache, cacheKey, lastAuthResult, secrets,
              clientApplication>>
envVars == <<appClientId, connections, connectionName, listing>>
treeVars == <<rootWebResources, built>>
histVars == <<lastSave, pulled, baseline>>
ctlVars == <<currentConnection, isConnected, webResourceLookup>>
syncVars == <<fileSyncState, files, remote>>

\* ------------------------------------------------------------ CredentialCache
\* `${this.connectionId}_msalTokenCache`
CacheKeyOf_shared(c) == <<"", "_msalTokenCache">>
CacheKeyOf(c) == <<c, "_msalTokenCache">>
SecretKeys == {CacheKeyOf(c) : c \in Conns}

\* TokenCache.serialize / deserialize: the blob wraps the cached accounts.
Serialize(accts) == [Account |-> accts]
Deserialize(blob) == IF blob = Absent THEN {} ELSE blob.Account


\* ------------------------------------------------------------------ tasks
\* What one call of AuthProvider.login has done so far (bookkeeping only: no
\* action reads it).
NoHist ==
    [nSilent |-> 0,          \* acquireTokenSilent calls that have returned
     nInter |-> 0,           \* acquireTokenInteractive calls started
     nOk |-> 0,              \* acquisitions that returned a credential
     silentOk |-> FALSE,     \* a silent call returned a credential
     errs |-> {},            \* the errors the silent calls threw
     fatal |-> FALSE,        \* a silent call threw an error other than interaction-required
     afterFatal |-> FALSE,   \* an acquisition was attempted after that error
     interRes |-> Absent,     \* the credential the interactive acquisition returned
     noAcct |-> TRUE,        \* no account was found, in memory or in the token cache
     stored |-> "none",      \* the stored credential when connect was called
     loginOk |-> FALSE]      \* login returned a credential

IdleTask ==
    [cmd |-> "idle", pc |-> "idle", conn |-> None, phase |-> 0, cancel |-> FALSE,
     acct |-> None, authResp |-> Absent, k |-> 0, path |-> None, rid |-> None,
     data |-> None, pull |-> FALSE, h |-> NoHist, out |-> None, wrote |-> {},
     snap |-> Absent, user |-> None, by |-> None, local |-> None, warned |-> FALSE,
     acked |-> FALSE, failed |-> FALSE, name |-> None]

SilentErrors == {"interaction_required", "other"}

\* ------------------------------------------------------------ AuthProvider
getTokenExpiration(c) ==
    IF lastAuthResult[c] = Absent THEN NoExpiry ELSE lastAuthResult[c].expiresOn

getAccessToken(c) ==
    IF lastAuthResult[c] = Absent THEN None ELSE lastAuthResult[c].accessToken

\* getAccount: the first account of the token cache, or null.
getAccount(c) ==
    IF cache[c] = {} THEN None ELSE CHOOSE a \in cache[c] : TRUE

\* error instanceof InteractionRequiredAuthError
IsInteractionRequired(e) == e = "interaction_required"

\* persistCache: the secret store after the serialized cache `accts` is stored.
persistCache_off(c, accts) == secrets
persistCache(c, accts) ==
    IF cacheKey[c] # None
    THEN [secrets EXCEPT ![cacheKey[c]] = Serialize(accts)]
    ELSE secrets

\* The renewal condition of Connection.connect as written in the revision that
\* keeps the expiry on the connection: no expiry known, expired, or inside the
\* buffer before the expiry.
RenewalDue(exp, t) ==
    \/ exp = NoExpiry
    \/ t > exp
    \/ t > exp - TOKEN_EXPIRATION_BUFFER_MINUTES

\* The stored credential at time t: none, expired, inside the renewal buffer,
\* or fresh.
Stored(exp, t) ==
    IF exp = NoExpiry THEN "none"
    ELSE IF t > exp THEN "expired"
    ELSE IF RenewalDue(exp, t) THEN "buffer"
    ELSE "fresh"

\* login, from the account lookup to its next await: with an account in memory
\* the silent acquisition is called at once, otherwise getAccount is awaited.
AfterInit(tr, c) ==
    IF account[c] # None
    THEN [tr EXCEPT !.pc = "silent1", !.acct = account[c], !.h.noAcct = FALSE]
    ELSE [tr EXCEPT !.pc = "get_account"]

\* login, from its entry to its first await.
AuthProvider_login(tr, c) ==
    IF ~initialized[c] THEN [tr EXCEPT !.pc = "init_load"] ELSE AfterInit(tr, c)

\* Connection.connect, from its entry to its first await: it only delegates to
\* login.  The result is the caller's task record, suspended inside login.
Connection_connect_ifExpired(tr, c) ==
    LET exp == getTokenExpiration(c)
        tr0 == [tr EXCEPT !.h = [NoHist EXCEPT !.stored = Stored(exp, now)],
                          !.authResp = Absent, !.acct = None, !.k = 0]
    IN  IF exp = NoExpiry \/ now > exp
        THEN AuthProvider_login(tr0, c)
        ELSE [tr0 EXCEPT !.pc = "connect_ok", !.authResp = lastAuthResult[c]]
Connection_connect(tr, c) ==
    LET tr0 == [tr EXCEPT !.h = [NoHist EXCEPT
                                    !.stored = Stored(getTokenExpiration(c), now)],
                          !.authResp = Absent, !.acct = None, !.k = 0]
    IN  AuthProvider_login(tr0, c)

\* init line 115, new PublicClientApplication(msalConfig): with a client id the
\* library builds the application; init has replaced a missing client id by ""
\* (line 108), and the library may accept that or throw.
Constructs(clientId) == IF clientId = "" THEN BOOLEAN ELSE {TRUE}

\* A caller calls connection.connect(): the synchronous part of the call.  The
\* first thing init does is to create the client application and its empty
\* token cache; when the constructor throws, login rethrows and connect fails.
Call_connect(t, tr, c) ==
    \E ok \in Constructs(appClientId) :
        IF initialized[c]
        THEN /\ task' = [task EXCEPT ![t] = Connection_connect(tr, c)]
             /\ UNCHANGED <<cache, clientApplication>>
        ELSE IF ok
        THEN /\ task' = [task EXCEPT ![t] = Connection_connect(tr, c)]
             /\ cache' = [cache EXCEPT ![c] = {}]
             /\ clientApplication' = [clientApplication EXCEPT ![c] = appClientId]
        ELSE /\ task' = [task EXCEPT ![t] =
                    [Connection_connect(tr, c) EXCEPT !.pc = "connect_fail"]]
             /\ UNCHANGED <<cache, clientApplication>>

\* Connection.connect's check of what login returned (lines 237-239).
ConnectCheck(r) == r # Absent /\ r.accessToken # "" /\ r.expiresOn # NoExpiry

\* Connection.connect has returned true, or has thrown.
Returned(tr) == tr.pc \in {"connect_ok", "connect_fail"}

\* login lines 198-203: the account and the result are stored.
SessionChanged(c, r) == account[c] # r.account \/ lastAuthResult[c] # r
Commit(c, r) ==
    /\ account' = [account EXCEPT ![c] = r.account]
    /\ lastAuthResult' = [lastAuthResult EXCEPT ![c] = r]

Wrote(tr, c, r) == IF SessionChanged(c, r) THEN tr.wrote \cup {"session"} ELSE tr.wrote

\* A command ends: its progress notification closes and its locals are gone.
Done(tr, out) ==
    [IdleTask EXCEPT !.pc = "done", !.cmd = tr.cmd, !.conn = tr.conn,
                     !.cancel = tr.cancel, !.wrote = tr.wrote, !.out = out,
                     !.snap = tr.snap, !.failed = tr.failed, !.name = tr.name]

\* The caller goes on after connect has returned: the locals of the call are gone.
Resume(tr) == [tr EXCEPT !.h = NoHist, !.authResp = Absent, !.acct = None]

\* bookkeeping of an acquisition attempt
Attempt(h) == [h EXCEPT !.afterFatal = h.fatal]
SilentOk(h) == [Attempt(h) EXCEPT !.nSilent = @ + 1, !.nOk = @ + 1, !.silentOk = TRUE]
SilentErr(h, e) ==
    [Attempt(h) EXCEPT !.nSilent = @ + 1, !.errs = @ \cup {e},
                       !.fatal = @ \/ ~IsInteractionRequired(e)]
InterStart(h) == [Attempt(h) EXCEPT !.nInter = @ + 1]
InterOk(h, r) == [h EXCEPT !.nOk = @ + 1, !.interRes = r]

\* A caller calls init() on the provider of connection c, whether or not it is
\* initialized (init has no guard of its own): lines 99-119, up to the await of
\* secrets.get.  snap keeps what the provider held when init was called.
AuthProvider_init_call(t, c) ==
    LET tr == [IdleTask EXCEPT !.cmd = "init", !.conn = c,
                               !.phase = IF initialized[c] THEN 1 ELSE 0,
                               !.snap = [accounts |-> cache[c],
                                         app |-> clientApplication[c]]]
    IN  /\ task[t].pc = "idle"
        /\ ops' = ops + 1
        /\ \E ok \in Constructs(appClientId) :
              IF ok
              THEN /\ cache' = [cache EXCEPT ![c] = {}]
                   /\ clientApplication' = [clientApplication EXCEPT ![c] = appClientId]
                   /\ task' = [task EXCEPT ![t] = [tr EXCEPT !.pc = "init_load"]]
              ELSE /\ task' = [task EXCEPT ![t] = Done(tr, "fail")]
                   /\ UNCHANGED <<cache, clientApplication>>
        /\ UNCHANGED <<envVars, treeVars, histVars, now, initialized, account, cacheKey, lastAuthResult, secrets,
                       ctlVars, syncVars>>

\* init, after its await of secrets.get: the persisted cache is merged into the
\* token cache, the cache key is kept and the provider is initialized; login
\* goes on to the account lookup.
AuthProvider_init(t) ==
    LET tr == task[t]
        c == tr.conn
    IN  /\ tr.pc = "init_load"
        /\ cache' = [cache EXCEPT ![c] = @ \cup Deserialize(secrets[CacheKeyOf(c)])]
        /\ cacheKey' = [cacheKey EXCEPT ![c] = CacheKeyOf(c)]
        /\ initialized' = [initialized EXCEPT ![c] = TRUE]
        /\ task' = [task EXCEPT ![t] =
               IF tr.cmd = "init"
               THEN Done(tr, IF tr.phase = 1 THEN "reinit" ELSE "ok")
               ELSE AfterInit(tr, c)]
        /\ UNCHANGED <<envVars, treeVars, histVars, now, account, lastAuthResult, secrets, clientApplication,
                       ctlVars, syncVars, ops>>

\* login line 180: getAccount returns.  Without an account login throws into
\* its inner catch, which calls getToken, whose first await is getAccount again.
Login_getAccount(t) ==
    LET tr == task[t]
        c == tr.conn
        found == getAccount(c)
    IN  /\ tr.pc = "get_account"
        /\ task' = [task EXCEPT ![t] =
               IF found # None
               THEN [tr EXCEPT !.pc = "silent1", !.acct = found, !.h.noAcct = FALSE]
               ELSE [tr EXCEPT !.pc = "gt_account"]]
        /\ UNCHANGED <<envVars, treeVars, histVars, now, authVars, ctlVars, syncVars, ops>>

\* login lines 186-205: acquireTokenSilent returns a credential, which login
\* stores before it awaits persistCache; or it throws, and whatever the error
\* the inner catch calls getToken.
Login_silent(t) ==
    LET tr == task[t]
        c == tr.conn
    IN  /\ tr.pc = "silent1"
        /\ \/ \E r \in Results(now) :
                /\ r.account = tr.acct
                /\ cache' = [cache EXCEPT ![c] = @ \cup {r.account}]
                /\ Commit(c, r)
                /\ task' = [task EXCEPT ![t] =
                       [tr EXCEPT !.pc = "login_persist", !.authResp = r,
                                  !.h = SilentOk(tr.h), !.wrote = Wrote(tr, c, r)]]
                /\ UNCHANGED <<initialized, cacheKey, secrets, clientApplication>>
           \/ \E e \in SilentErrors :
                /\ task' = [task EXCEPT ![t] =
                       [tr EXCEPT !.pc = "gt_account", !.h = SilentErr(tr.h, e)]]
                /\ UNCHANGED authVars
        /\ UNCHANGED <<envVars, treeVars, histVars, now, ctlVars, syncVars, ops>>

\* getToken lines 226-233: with a cached account getTokenSilent is called,
\* without one getTokenInteractive.
GetToken_route_silent(tr, cachedAccount) ==
    [tr EXCEPT !.pc = "silent2", !.acct = cachedAccount]
GetToken_route(tr, cachedAccount) ==
    IF cachedAccount # None
    THEN [tr EXCEPT !.pc = "silent2", !.acct = cachedAccount]
    ELSE [tr EXCEPT !.pc = "inter_wait", !.k = 2, !.h = InterStart(tr.h)]

\* getToken line 224: getAccount returns.  With an account getTokenSilent is
\* called, without one getTokenInteractive opens the browser.  k counts the
\* persistCache calls between the acquisition and getToken's return.
GetToken_getAccount(t) ==
    LET tr == task[t]
        c == tr.conn
        cachedAccount == getAccount(c)
    IN  /\ tr.pc = "gt_account"
        /\ task' = [task EXCEPT ![t] =
               GetToken_route([tr EXCEPT !.h.noAcct = @ /\ cachedAccount = None],
                              cachedAccount)]
        /\ UNCHANGED <<envVars, treeVars, histVars, now, authVars, ctlVars, syncVars, ops>>

\* Where getTokenSilent goes when acquireTokenSilent throws e (lines 259-272).
OnSilentError_rethrow(tr, e) ==
    [tr EXCEPT !.pc = "connect_fail", !.h = SilentErr(tr.h, e)]
OnSilentError(tr, e) ==
    IF IsInteractionRequired(e)
    THEN [tr EXCEPT !.pc = "inter_wait", !.k = 3, !.h = InterStart(SilentErr(tr.h, e))]
    ELSE [tr EXCEPT !.pc = "connect_fail", !.h = SilentErr(tr.h, e)]

\* getTokenSilent: acquireTokenSilent returns a credential, or throws.  The
\* interaction-required error starts the interactive flow; any other error is
\* rethrown through getToken and login, and Connection.connect fails.
GetTokenSilent(t) ==
    LET tr == task[t]
        c == tr.conn
    IN  /\ tr.pc = "silent2"
        /\ \/ \E r \in Results(now) :
                /\ r.account = tr.acct
                /\ cache' = [cache EXCEPT ![c] = @ \cup {r.account}]
                /\ task' = [task EXCEPT ![t] =
                       [tr EXCEPT !.pc = "persist", !.k = 2, !.authResp = r,
                                  !.h = SilentOk(tr.h)]]
           \/ \E e \in SilentErrors :
                /\ task' = [task EXCEPT ![t] = OnSilentError(tr, e)]
                /\ UNCHANGED <<cache, clientApplication>>
        /\ UNCHANGED <<envVars, treeVars, histVars, now, initialized, account, cacheKey, lastAuthResult, secrets,
                       clientApplication, ctlVars, syncVars, ops>>

\* getTokenInteractive: the browser flow ends.  It returns a credential, or it
\* throws (the user gives up, the flow times out) and login fails.
GetTokenInteractive(t) ==
    LET tr == task[t]
        c == tr.conn
    IN  /\ tr.pc = "inter_wait"
        /\ \/ \E r \in Results(now) :
                /\ cache' = [cache EXCEPT ![c] = @ \cup {r.account}]
                /\ task' = [task EXCEPT ![t] =
                       [tr EXCEPT !.pc = "persist", !.authResp = r,
                                  !.h = InterOk(tr.h, r)]]
           \/ /\ task' = [task EXCEPT ![t] = [tr EXCEPT !.pc = "connect_fail"]]
              /\ UNCHANGED <<cache, clientApplication>>
        /\ UNCHANGED <<envVars, treeVars, histVars, now, initialized, account, cacheKey, lastAuthResult, secrets,
                       clientApplication, ctlVars, syncVars, ops>>

\* One persistCache of getTokenInteractive, getTokenSilent or getToken.  After
\* the last of them getToken returns and login stores the account and the
\* result (lines 198-203) before it awaits its own persistCache.
PersistCache(t) ==
    LET tr == task[t]
        c == tr.conn
        r == tr.authResp
    IN  /\ tr.pc = "persist"
        /\ secrets' = persistCache(c, cache[c])
        /\ IF tr.k > 1
           THEN /\ task' = [task EXCEPT ![t] =
                       [tr EXCEPT !.k = @ - 1]]
                /\ UNCHANGED <<account, lastAuthResult>>
           ELSE /\ Commit(c, r)
                /\ task' = [task EXCEPT ![t] =
                       [tr EXCEPT !.pc = "login_persist", !.k = 0,
                                  !.wrote = Wrote(tr, c, r)]]
        /\ UNCHANGED <<envVars, treeVars, histVars, now, initialized, cache, cacheKey, clientApplication,
                       ctlVars, syncVars, ops>>

\* login lines 204-205 and Connection.connect lines 237-240: the cache is
\* persisted, login returns the credential, and connect returns true or
\* throws when the token or the expiry is missing.
Login_return(t) ==
    LET tr == task[t]
        c == tr.conn
    IN  /\ tr.pc = "login_persist"
        /\ secrets' = persistCache(c, cache[c])
        /\ task' = [task EXCEPT ![t] =
               [tr EXCEPT !.pc = IF ConnectCheck(tr.authResp)
                                 THEN "connect_ok" ELSE "connect_fail",
                          !.h.loginOk = TRUE]]
        /\ UNCHANGED <<envVars, treeVars, histVars, now, initialized, account, cache, cacheKey, lastAuthResult,
                       clientApplication, ctlVars, syncVars, ops>>

\* ------------------------------------------------------- file sync state
\* computeFileHash: sha256 of the content, in hex.
computeFileHash(content) == <<"sha256", content>>

\* setFileSyncState(filePath, guid, published, hash): the map after the call.
setFileSyncState_keepHash(p, guid, published, hash) ==
    LET prev == fileSyncState[p]
    IN  [fileSyncState EXCEPT ![p] =
            [guid |-> guid, published |-> published,
             hash |-> IF prev # Absent THEN prev.hash ELSE hash]]
setFileSyncState(p, guid, published, hash) ==
    LET prev == fileSyncState[p]
    IN  IF published
        THEN [fileSyncState EXCEPT ![p] = [guid |-> guid, published |-> TRUE, hash |-> hash]]
        ELSE IF prev # Absent
        THEN [fileSyncState EXCEPT ![p] =
                 [guid |-> guid, published |-> FALSE, hash |-> prev.hash]]
        ELSE [fileSyncState EXCEPT ![p] =
                 [guid |-> guid, published |-> FALSE, hash |-> hash]]

\* resetAllFileSyncState: fileSyncState.clear()
NoSyncState == [p \in Paths |-> Absent]

\* updateFilePublishStateOnSave, lines 107-122, for the record of a path and
\* the text of its saved document (a record always holds a digest).
updateFilePublishStateOnSave_unpublished(state, text) == [state EXCEPT !.published = FALSE]
updateFilePublishStateOnSave(state, text) ==
    [state EXCEPT !.published = (computeFileHash(text) = state.hash)]

\* prepareWebResourceFilePath: the local path of a web resource.
PathOf(r) == IF r = "r1" THEN "p1" ELSE None

\* ------------------------------------------------------ WebResourceExplorer
\* Names are strings: sequences of characters. A logical name joins its
\* segments with '/'.
Chars == {"a", "B", "/"}
Segments == {<<>>, <<"a">>, <<"B">>}

RECURSIVE Join(_)
Join(parts) ==
    IF Len(parts) = 1 THEN parts[1]
    ELSE parts[1] \o <<"/">> \o Join(Tail(parts))

\* The logical names a server may hold: up to MaxDepth segments.
Names == {Join(parts) : parts \in UNION {[1..n -> Segments] : n \in 1..MaxDepth}}

\* The record ids, in the order the server created them.
RecordIds == <<"r1", "r2", "r3", "r4">>

\* The flat list CrmWebAPI.getWebResources returns for n records named by f:
\* the k-th record has the k-th id.
Descriptor(name, k) == [webResourceName |-> name, webResourceId |-> RecordIds[k]]
Listing(f, n) == [k \in 1..n |-> Descriptor(f[k], k)]

\* String.prototype.toLowerCase and the UTF-16 code units the relational
\* operators compare.
LowerChar(ch) == IF ch = "B" THEN "b" ELSE ch
toLowerCase(s) == [i \in DOMAIN s |-> LowerChar(s[i])]
CodeUnit(ch) ==
    CASE ch = "/" -> 47
      [] ch = "B" -> 66
      [] ch = "a" -> 97
      [] ch = "b" -> 98

\* x < y on strings: at the first position where they differ x has the
\* smaller code unit, or x is a proper prefix of y.
StringLess(x, y) ==
    \E i \in 1..(Len(x) + 1) :
        /\ i <= Len(y)
        /\ \A j \in 1..(i - 1) : x[j] = y[j]
        /\ \/ i > Len(x)
           \/ CodeUnit(x[i]) < CodeUnit(y[i])

\* String.prototype.split('/'): the pieces between the separators; a string
\* without a separator, the empty string included, is its own single piece.
RECURSIVE split(_)
split_whole(s) == <<s>>
split(s) ==
    IF \A i \in DOMAIN s : s[i] # "/" THEN <<s>>
    ELSE LET i == CHOOSE k \in DOMAIN s :
                      s[k] = "/" /\ \A j \in 1..(k - 1) : s[j] # "/"
         IN  <<SubSeq(s, 1, i - 1)>> \o split(SubSeq(s, i + 1, Len(s)))

\* The WebResource constructor, lines 244-275: a node starts without children.
WebResource(webResourceName, webResourceId, fileName, type) ==
    [webResourceName |-> webResourceName, webResourceId |-> webResourceId,
     fileName |-> fileName, type |-> type, children |-> <<>>]

\* findOrCreateFolderNode, lines 137-155: the position among the children of
\* the first folder with this display name, or of the folder to be pushed.
FolderAt(children, folderName) ==
    LET found == {k \in DOMAIN children :
                     children[k].fileName = folderName /\ children[k].type = "folder"}
    IN  IF found = {} THEN Len(children) + 1
        ELSE CHOOSE k \in found : \A j \in found : k <= j

findOrCreateFolderNode_create(children, folderName, fullFolderPath) ==
    Append(children, WebResource(fullFolderPath, "", folderName, "folder"))
findOrCreateFolderNode(children, folderName, fullFolderPath) ==
    IF FolderAt(children, folderName) <= Len(children) THEN children
    ELSE Append(children, WebResource(fullFolderPath, "", folderName, "folder"))

\* addWebResourceToHierarchy, lines 101-126, from path part i on: the folders
\* of the non-final parts are found or created, the file node is pushed to the
\* deepest one.
RECURSIVE PlaceUnder(_, _, _, _, _)
PlaceUnder(children, pathParts, i, currentPath, wr) ==
    IF i > Len(pathParts) - 1
    THEN Append(children,
                WebResource(wr.webResourceName, wr.webResourceId,
                            pathParts[Len(pathParts)], "file"))
    ELSE LET folderNamePart == pathParts[i]
             path == IF i = 1 THEN folderNamePart
                     ELSE currentPath \o <<"/">> \o folderNamePart
             withFolder == findOrCreateFolderNode(children, folderNamePart, path)
             k == IF Len(withFolder) > Len(children) THEN Len(withFolder)
                  ELSE FolderAt(children, folderNamePart)
         IN  [withFolder EXCEPT ![k].children =
                 PlaceUnder(@, pathParts, i + 1, path, wr)]

addWebResourceToHierarchy_unique(children, wr) ==
    IF \E k \in DOMAIN children : children[k].webResourceName = wr.webResourceName
    THEN children
    ELSE PlaceUnder(children, split(wr.webResourceName), 1, <<>>, wr)
addWebResourceToHierarchy(children, wr) ==
    PlaceUnder(children, split(wr.webResourceName), 1, <<>>, wr)

\* The comparator of sortChildrenRecursive, lines 167-186.
compare_caseSensitive(a, b) ==
    IF a.type = "folder" /\ b.type = "file" THEN 0 - 1
    ELSE IF a.type = "file" /\ b.type = "folder" THEN 1
    ELSE IF StringLess(a.fileName, b.fileName) THEN 0 - 1
    ELSE IF StringLess(b.fileName, a.fileName) THEN 1
    ELSE 0
compare(a, b) ==
    IF a.type = "folder" /\ b.type = "file" THEN 0 - 1
    ELSE IF a.type = "file" /\ b.type = "folder" THEN 1
    ELSE LET nameA == toLowerCase(a.fileName)
             nameB == toLowerCase(b.fileName)
         IN  IF StringLess(nameA, nameB) THEN 0 - 1
             ELSE IF StringLess(nameB, nameA) THEN 1
             ELSE 0

\* Array.prototype.sort is stable: an element goes before the first element
\* that compares greater.
InsertSorted(sorted, x) ==
    LET after == {k \in DOMAIN sorted : compare(sorted[k], x) > 0}
        at == IF after = {} THEN Len(sorted) + 1
              ELSE CHOOSE k \in after : \A j \in after : k <= j
    IN  SubSeq(sorted, 1, at - 1) \o <<x>> \o SubSeq(sorted, at, Len(sorted))

RECURSIVE sort(_)
sort(s) == IF s = <<>> THEN <<>> ELSE InsertSorted(sort(SubSeq(s, 1, Len(s) - 1)), s[Len(s)])

\* sortChildrenRecursive, lines 165-195: the children are sorted, then the
\* children of every folder among them.
RECURSIVE sortChildrenRecursive(_)
sortChildrenRecursive(children) ==
    LET sorted == sort(children)
    IN  [k \in DOMAIN sorted |->
            IF sorted[k].type = "folder"
            THEN [sorted[k] EXCEPT !.children = sortChildrenRecursive(@)]
            ELSE sorted[k]]

\* The loop of setWebResources, lines 75-77.
RECURSIVE AddAll(_, _)
AddAll(children, flat) ==
    IF flat = <<>> THEN children
    ELSE AddAll(addWebResourceToHierarchy(children, Head(flat)), Tail(flat))

\* setWebResources, lines 69-84: the tree is built under a new conceptual
\* root, whatever the explorer showed before.
setWebResources_onto(root, flatWebResources) ==
    sortChildrenRecursive(AddAll(root, flatWebResources))
setWebResources(root, flatWebResources) ==
    sortChildrenRecursive(AddAll(<<>>, flatWebResources))

\* The record of the calls of setWebResources: the list of the last call and
\* whether the call before it had the same list.
NoBuild == [flat |-> <<>>, calls |-> 0]

\* setWebResources and clearWebResources as steps of the explorer.
Explorer_set(flat) ==
    /\ rootWebResources' = setWebResources(rootWebResources, flat)
    /\ built' = [flat |-> flat,
                 calls |-> IF built.calls >= 1 /\ built.flat = flat THEN 2 ELSE 1]

clearWebResources ==
    /\ rootWebResources' = <<>>
    /\ built' = NoBuild

\* ------------------------------------------------- ConnectionStatusController
NoLookup == [p \in Paths |-> None]

\* getResourceIdFromPath, lines 53-55.
getResourceIdFromPath_any(p) == "r1"
getResourceIdFromPath(p) == webResourceLookup[p]

\* disconnect()
disconnect ==
    /\ currentConnection' = None
    /\ isConnected' = FALSE
    /\ webResourceLookup' = NoLookup

\* The calls of connection.connect() made by makeApiRequest.
InRequest(tr) ==
    \/ tr.cmd = "connect" /\ tr.phase = 2
    \/ tr.cmd = "filter" /\ tr.phase = 2
    \/ tr.cmd = "publish" /\ tr.phase \in {2, 3}
    \/ tr.cmd \in {"api", "open"}

\* ------------------------------------------------------------- wrm.connect
\* The command up to its first await: setCurrentConnection, then
\* ConnectionStatusController.connect resets the lookup and calls
\* currentConnection.connect().
CmdConnect(t, c) ==
    /\ task[t].pc = "idle"
    /\ c \in connections
    /\ ops < MaxOps
    /\ ops' = ops + 1
    /\ currentConnection' = c
    /\ webResourceLookup' = NoLookup
    /\ clearWebResources
    /\ Call_connect(t, [IdleTask EXCEPT !.cmd = "connect", !.conn = c, !.phase = 1], c)
    /\ UNCHANGED <<envVars, histVars, now, initialized, account, cacheKey, lastAuthResult, secrets,
                   isConnected, syncVars>>

\* ConnectionStatusController.connect line 80 and wrm.connect lines 242-248:
\* connect returned, the controller is connected, the file sync state is
\* reset, and unless the user cancelled the solutions are requested.
CmdConnect_authenticated(t) ==
    LET tr == task[t]
        tr1 == [tr EXCEPT !.wrote = IF fileSyncState # NoSyncState
                                    THEN @ \cup {"sync"} ELSE @]
    IN  /\ tr.pc = "connect_ok" /\ tr.cmd = "connect" /\ tr.phase = 1
        /\ isConnected' = TRUE
        /\ fileSyncState' = NoSyncState
        /\ IF tr.cancel
           THEN /\ task' = [task EXCEPT ![t] = Done(tr1, "cancelled")]
                /\ UNCHANGED <<cache, clientApplication>>
           ELSE Call_connect(t, [tr1 EXCEPT !.phase = 2], tr.conn)
        /\ UNCHANGED <<envVars, treeVars, histVars, now, initialized, account, cacheKey, lastAuthResult, secrets,
                       currentConnection, webResourceLookup, files, remote, ops>>

\* ConnectionStatusController.connect lines 85-90 and wrm.connect lines
\* 274-277: connect threw, and the command's catch disconnects.
CmdConnect_authFailed(t) ==
    LET tr == task[t]
    IN  /\ tr.pc = "connect_fail" /\ tr.cmd = "connect" /\ tr.phase = 1
        /\ disconnect
        /\ task' = [task EXCEPT ![t] = Done(tr, "authfail")]
        /\ UNCHANGED <<envVars, treeVars, histVars, now, authVars, syncVars, ops>>

\* ---------------------------------------------------- CrmWebAPI.makeApiRequest
\* What the catch of the command does when a request or a connect threw: only
\* wrm.connect disconnects; the other commands show the error.
CommandCatch(tr) ==
    IF tr.cmd = "connect" THEN disconnect ELSE UNCHANGED ctlVars

\* makeApiRequest lines 296-320: connect returned; the request is sent with
\* the connection's access token, or without a token nothing is sent and the
\* error goes to the command.
Request_send(t) ==
    LET tr == task[t]
    IN  /\ tr.pc = "connect_ok" /\ InRequest(tr)
        /\ IF getAccessToken(tr.conn) \notin {None, ""}
           THEN /\ task' = [task EXCEPT ![t] = [Resume(tr) EXCEPT !.pc = "fetch"]]
                /\ UNCHANGED ctlVars
           ELSE /\ task' = [task EXCEPT ![t] = Done(tr, "fail")]
                /\ CommandCatch(tr)
        /\ UNCHANGED <<envVars, treeVars, histVars, now, authVars, syncVars, ops>>

\* makeApiRequest lines 285-292: connect threw; the error goes to the command.
Request_authFailed_sends(t) ==
    LET tr == task[t]
    IN  /\ tr.pc = "connect_fail" /\ InRequest(tr)
        /\ task' = [task EXCEPT ![t] = [Resume(tr) EXCEPT !.pc = "fetch"]]
        /\ UNCHANGED <<envVars, treeVars, histVars, now, authVars, ctlVars, syncVars, ops>>
Request_authFailed(t) ==
    LET tr == task[t]
    IN  /\ tr.pc = "connect_fail" /\ InRequest(tr)
        /\ CommandCatch(tr)
        /\ task' = [task EXCEPT ![t] = Done(tr, "authfail")]
        /\ UNCHANGED <<envVars, treeVars, histVars, now, authVars, syncVars, ops>>

\* makeApiRequest lines 329-349: the response is not ok, or fetch threw.
Request_failed_ignored(t) ==
    LET tr == task[t]
    IN  /\ tr.pc = "fetch"
        /\ task' = [task EXCEPT ![t] =
               IF tr.cmd = "publish" /\ tr.phase = 2
               THEN [tr EXCEPT !.phase = 3]
               ELSE Done(tr, "fail")]
        /\ CommandCatch(tr)
        /\ UNCHANGED <<envVars, treeVars, histVars, now, authVars, syncVars, ops>>
Request_failed(t) ==
    LET tr == task[t]
    IN  /\ tr.pc = "fetch"
        /\ CommandCatch(tr)
        /\ task' = [task EXCEPT ![t] = Done(tr, "fail")]
        /\ UNCHANGED <<envVars, treeVars, histVars, now, authVars, syncVars, ops>>

\* wrm.connect lines 248-271: the solutions arrive.
CmdConnect_solutions(t) ==
    LET tr == task[t]
    IN  /\ tr.pc = "fetch" /\ tr.cmd = "connect"
        /\ task' = [task EXCEPT ![t] =
               Done(tr, IF tr.cancel THEN "cancelled" ELSE "ok")]
        /\ UNCHANGED <<envVars, treeVars, histVars, now, authVars, ctlVars, syncVars, ops>>

\* ------------------------------------------------------ wrm.getWebResources
CmdGetWebResources(t) ==
    LET c == currentConnection
        tr == [IdleTask EXCEPT !.cmd = "api", !.conn = c, !.phase = 1]
    IN  /\ task[t].pc = "idle"
        /\ ops < MaxOps
        /\ ops' = ops + 1
        /\ IF c = None
           THEN /\ task' = [task EXCEPT ![t] = Done(tr, "noconn")]
                /\ UNCHANGED <<cache, clientApplication>>
           ELSE Call_connect(t, tr, c)
        /\ UNCHANGED <<envVars, treeVars, histVars, now, initialized, account, cacheKey, lastAuthResult, secrets,
                       ctlVars, syncVars>>

CmdGetWebResources_listed(t) ==
    LET tr == task[t]
    IN  /\ tr.pc = "fetch" /\ tr.cmd = "api"
        /\ IF tr.cancel THEN UNCHANGED treeVars ELSE Explorer_set(listing)
        /\ task' = [task EXCEPT ![t] =
               Done(tr, IF tr.cancel THEN "cancelled" ELSE "ok")]
        /\ UNCHANGED <<envVars, histVars, now, authVars, ctlVars, syncVars, ops>>

\* ----------------------------------------------------- wrm.filterSolutions
\* The input box is awaited first.
CmdFilterSolutions(t) ==
    /\ task[t].pc = "idle"
    /\ ops < MaxOps
    /\ ops' = ops + 1
    /\ task' = [task EXCEPT ![t] = [IdleTask EXCEPT !.cmd = "filter", !.pc = "filter_input"]]
    /\ UNCHANGED <<envVars, treeVars, histVars, now, authVars, ctlVars, syncVars>>

\* lines 593-615: the filter is stored and the current connection connects.
CmdFilterSolutions_input(t) ==
    LET tr == task[t]
        c == currentConnection
    IN  /\ tr.pc = "filter_input"
        /\ IF c = None
           THEN /\ task' = [task EXCEPT ![t] = Done(tr, "noconn")]
                /\ UNCHANGED <<cache, clientApplication>>
           ELSE Call_connect(t, [tr EXCEPT !.conn = c, !.phase = 1], c)
        /\ UNCHANGED <<envVars, treeVars, histVars, now, initialized, account, cacheKey, lastAuthResult, secrets,
                       ctlVars, syncVars, ops>>

\* lines 615-618: connect returned; the solutions are requested.
CmdFilterSolutions_connected(t) ==
    LET tr == task[t]
    IN  /\ tr.pc = "connect_ok" /\ tr.cmd = "filter" /\ tr.phase = 1
        /\ Call_connect(t, [tr EXCEPT !.phase = 2], tr.conn)
        /\ UNCHANGED <<envVars, treeVars, histVars, now, initialized, account, cacheKey, lastAuthResult, secrets,
                       ctlVars, syncVars, ops>>

CmdFilterSolutions_listed(t) ==
    LET tr == task[t]
    IN  /\ tr.pc = "fetch" /\ tr.cmd = "filter"
        /\ task' = [task EXCEPT ![t] = Done(tr, "ok")]
        /\ UNCHANGED <<envVars, treeVars, histVars, now, authVars, ctlVars, syncVars, ops>>

\* wrm.filterSolutions lines 626-629 and wrm.publishWebResource lines 571-574:
\* the command's own connection.connect() threw; the catch shows the error.
Command_authFailed(t) ==
    LET tr == task[t]
    IN  /\ tr.pc = "connect_fail" /\ tr.cmd \in {"filter", "publish"} /\ tr.phase = 1
        /\ task' = [task EXCEPT ![t] = Done(tr, "authfail")]
        /\ UNCHANGED <<envVars, treeVars, histVars, now, authVars, ctlVars, syncVars, ops>>

\* ------------------------------------------------- wrm.publishWebResource
\* The command up to its first await, for the document p of the active editor
\* (saved, so no save prompt): the current connection connects.
CmdPublish(t, p) ==
    LET c == currentConnection
        tr == [IdleTask EXCEPT !.cmd = "publish", !.conn = c, !.phase = 1, !.path = p]
    IN  /\ task[t].pc = "idle"
        /\ files[p] # None
        /\ ops < MaxOps
        /\ ops' = ops + 1
        /\ IF c = None
           THEN /\ task' = [task EXCEPT ![t] = Done(tr, "noconn")]
                /\ UNCHANGED <<cache, clientApplication>>
           ELSE Call_connect(t, tr, c)
        /\ UNCHANGED <<envVars, treeVars, histVars, now, initialized, account, cacheKey, lastAuthResult, secrets,
                       ctlVars, syncVars>>

\* lines 537-553: connect returned; the cancellation is checked, the linked
\* web resource id is looked up and the file is read.
CmdPublish_connected(t) ==
    LET tr == task[t]
        webResourceId == getResourceIdFromPath(tr.path)
    IN  /\ tr.pc = "connect_ok" /\ tr.cmd = "publish" /\ tr.phase = 1
        /\ task' = [task EXCEPT ![t] =
               IF tr.cancel THEN Done(tr, "cancelled")
               ELSE IF webResourceId = None THEN Done(tr, "notlinked")
               ELSE [Resume(tr) EXCEPT !.pc = "pub_read", !.rid = webResourceId]]
        /\ UNCHANGED <<envVars, treeVars, histVars, now, authVars, ctlVars, syncVars, ops>>

\* lines 553-562: the file is read; the cancellation is checked and
\* CrmWebAPI.publishWebResource starts with the update (PATCH) request.
CmdPublish_read(t) ==
    LET tr == task[t]
    IN  /\ tr.pc = "pub_read"
        /\ IF tr.cancel
           THEN /\ task' = [task EXCEPT ![t] = Done(tr, "cancelled")]
                /\ UNCHANGED <<cache, clientApplication>>
           ELSE Call_connect(t, [tr EXCEPT !.phase = 2, !.data = files[tr.path]], tr.conn)
        /\ UNCHANGED <<envVars, treeVars, histVars, now, initialized, account, cacheKey, lastAuthResult, secrets,
                       ctlVars, syncVars, ops>>

\* CrmWebAPI.publishWebResource lines 241-252: the update succeeded, the
\* server holds the content, and the PublishXml request starts.
CmdPublish_updated(t) ==
    LET tr == task[t]
    IN  /\ tr.pc = "fetch" /\ tr.cmd = "publish" /\ tr.phase = 2
        /\ remote' = [remote EXCEPT ![tr.rid] = tr.data]
        /\ Call_connect(t, [tr EXCEPT !.phase = 3], tr.conn)
        /\ UNCHANGED <<envVars, treeVars, histVars, now, initialized, account, cacheKey, lastAuthResult, secrets,
                       ctlVars, fileSyncState, files, ops>>

\* lines 563-566: PublishXml succeeded; the file is read again.
CmdPublish_published(t) ==
    LET tr == task[t]
    IN  /\ tr.pc = "fetch" /\ tr.cmd = "publish" /\ tr.phase = 3
        /\ task' = [task EXCEPT ![t] = [tr EXCEPT !.pc = "pub_reread"]]
        /\ baseline' = [baseline EXCEPT ![tr.path] = @ \cup {tr.data}]
        /\ UNCHANGED <<envVars, treeVars, lastSave, pulled, now, authVars, ctlVars, syncVars, ops>>

\* lines 566-568: the hash of the file is recorded as published.
CmdPublish_recorded(t) ==
    LET tr == task[t]
        hash == computeFileHash(files[tr.path])
    IN  /\ tr.pc = "pub_reread"
        /\ fileSyncState' = setFileSyncState(tr.path, tr.rid, TRUE, hash)
        /\ task' = [task EXCEPT ![t] = Done([tr EXCEPT !.wrote = @ \cup {"sync"}], "ok")]
        /\ UNCHANGED <<envVars, treeVars, histVars, now, authVars, ctlVars, files, remote, ops>>

\* --------------------------------------------------- wrm.openWebResource
\* The local path is prepared (mkdir is awaited).
CmdOpen(t, r) ==
    /\ task[t].pc = "idle"
    /\ ops < MaxOps
    /\ ops' = ops + 1
    /\ task' = [task EXCEPT ![t] =
           [IdleTask EXCEPT !.cmd = "open", !.pc = "open_prep", !.rid = r,
                            !.path = PathOf(r)]]
    /\ UNCHANGED <<envVars, treeVars, histVars, now, authVars, ctlVars, syncVars>>

\* lines 402-409: the current connection is read and the details requested.
CmdOpen_prepared(t) ==
    LET tr == task[t]
        c == currentConnection
    IN  /\ tr.pc = "open_prep"
        /\ IF c = None
           THEN /\ task' = [task EXCEPT ![t] = Done(tr, "noconn")]
                /\ UNCHANGED <<cache, clientApplication>>
           ELSE Call_connect(t, [tr EXCEPT !.conn = c, !.phase = 1], c)
        /\ UNCHANGED <<envVars, treeVars, histVars, now, initialized, account, cacheKey, lastAuthResult, secrets,
                       ctlVars, syncVars, ops>>

\* Buffer.toString('base64'), and localContentBase64 of lines 417-427: the
\* empty string when the file does not exist.
Base64(content) == <<"base64", content>>
localContentBase64(local) == IF local = None THEN <<>> ELSE Base64(local)

\* getConnectionUserName, connectionExplorer.ts lines 287-290: accountInfo?.name,
\* where the name of an AccountInfo is optional.
AccountNames(a) == IF a = None THEN {None} ELSE {a, None}

\* line 429: the local content, base64-encoded, against the content of the
\* details, which the server sends base64-encoded.
isContentDifferent_always(local, content) == TRUE
isContentDifferent(local, content) == localContentBase64(local) # Base64(content)

\* line 432: the condition of the concurrent-edit warning.
conflictWarning_pullOnly(currentUser, fullname, different, pullLatest) ==
    currentUser # None /\ fullname # currentUser /\ different /\ pullLatest
conflictWarning(currentUser, fullname, different, pullLatest) ==
    currentUser # None /\ fullname # currentUser /\ different

\* lines 409-419: the details arrive with the content and the name of the user
\* who modified the web resource last; the name of the connection's account
\* is taken, and the local file is read.
CmdOpen_details(t) ==
    LET tr == task[t]
    IN  /\ tr.pc = "fetch" /\ tr.cmd = "open"
        /\ \E fullname \in Users, name \in AccountNames(account[tr.conn]) :
              task' = [task EXCEPT ![t] =
                  [tr EXCEPT !.pc = "open_readlocal", !.data = remote[tr.rid],
                             !.by = fullname, !.user = name]]
        /\ UNCHANGED <<envVars, treeVars, histVars, now, authVars, ctlVars, syncVars, ops>>

\* lines 419-452: the local file has been read; the contents are compared and
\* the warning is shown when another user modified a different content; with
\* the pull-latest setting on the file is written, otherwise its existence is
\* checked.
CmdOpen_compared(t) ==
    LET tr == task[t]
        local == files[tr.path]
        different == isContentDifferent(local, tr.data)
    IN  /\ tr.pc = "open_readlocal"
        /\ \E pullLatest \in BOOLEAN :
              task' = [task EXCEPT ![t] =
                  [tr EXCEPT !.pull = pullLatest,
                             !.local = local,
                             !.warned = conflictWarning(tr.user, tr.by, different,
                                                        pullLatest),
                             !.pc = IF pullLatest THEN "open_write" ELSE "open_access"]]
        /\ UNCHANGED <<envVars, treeVars, histVars, now, authVars, ctlVars, syncVars, ops>>

\* lines 439-443: writeFile has written the server's content.
CmdOpen_written(t) ==
    LET tr == task[t]
    IN  /\ tr.pc = "open_write"
        /\ files' = [files EXCEPT ![tr.path] = tr.data]
        /\ baseline' = [baseline EXCEPT ![tr.path] = @ \cup {tr.data}]
        /\ task' = [task EXCEPT ![t] = [tr EXCEPT !.pc = "open_show"]]
        /\ UNCHANGED <<envVars, treeVars, lastSave, pulled, now, authVars, ctlVars, fileSyncState, remote, ops>>

\* lines 446-451: without a local file the command stops.
CmdOpen_accessed(t) ==
    LET tr == task[t]
    IN  /\ tr.pc = "open_access"
        /\ task' = [task EXCEPT ![t] =
               IF files[tr.path] = None THEN Done(tr, "nofile")
               ELSE [tr EXCEPT !.pc = "open_show"]]
        /\ UNCHANGED <<envVars, treeVars, histVars, now, authVars, ctlVars, syncVars, ops>>

\* lines 455-470: the document is shown, the path is linked to the web
\* resource id, and the file is read for its hash.
CmdOpen_shown(t) ==
    LET tr == task[t]
    IN  /\ tr.pc = "open_show"
        /\ webResourceLookup' = [webResourceLookup EXCEPT ![tr.path] = tr.rid]
        /\ pulled' = [pulled EXCEPT ![tr.path] = tr.conn]
        /\ task' = [task EXCEPT ![t] = [tr EXCEPT !.pc = "open_hash"]]
        /\ UNCHANGED <<envVars, treeVars, lastSave, baseline, now, authVars, currentConnection,
                       isConnected, syncVars, ops>>

\* lines 465-476: the sync state of the file is recorded; when reading the
\* file fails, the catch does nothing and the command ends as usual.
CmdOpen_recorded(t) ==
    LET tr == task[t]
        hash == computeFileHash(files[tr.path])
    IN  /\ tr.pc = "open_hash"
        /\ \E readOk \in BOOLEAN :
              IF readOk
              THEN /\ fileSyncState' = setFileSyncState(tr.path, tr.rid, tr.pull, hash)
                   /\ task' = [task EXCEPT ![t] =
                          Done([tr EXCEPT !.wrote = @ \cup {"sync"}], "ok")]
              ELSE /\ fileSyncState' = fileSyncState
                   /\ task' = [task EXCEPT ![t] = Done([tr EXCEPT !.failed = TRUE], "ok")]
        /\ UNCHANGED <<envVars, treeVars, histVars, now, authVars, ctlVars, files, remote, ops>>

\* ---------------------------------------------------- wrm.removeConnection
\* lines 192: ConnectionExplorer.removeItem filters the connection out and
\* awaits the update of the global state.
CmdRemoveConnection(t, c) ==
    /\ task[t].pc = "idle"
    /\ c \in connections
    /\ ops < MaxOps
    /\ ops' = ops + 1
    /\ connections' = connections \ {c}
    /\ connectionName' = [connectionName EXCEPT ![c] = None]
    /\ task' = [task EXCEPT ![t] =
           [IdleTask EXCEPT !.cmd = "remove", !.pc = "remove_saved", !.conn = c]]
    /\ UNCHANGED <<histVars, now, authVars, ctlVars, syncVars, appClientId, listing, treeVars>>

\* lines 193-203: when the removed connection is the current one the explorers
\* are cleared, the controller disconnects and the file sync state is reset.
CmdRemoveConnection_saved(t) ==
    LET tr == task[t]
    IN  /\ tr.pc = "remove_saved"
        /\ IF currentConnection = tr.conn
           THEN /\ disconnect
                /\ clearWebResources
                /\ fileSyncState' = NoSyncState
           ELSE UNCHANGED <<ctlVars, treeVars, fileSyncState>>
        /\ task' = [task EXCEPT ![t] = Done(tr, "ok")]
        /\ UNCHANGED <<histVars, now, authVars, files, remote, ops, envVars>>

\* ------------------------------------------------------------ environment
\* The user presses Cancel on the progress notification of a running command.
Cancel(t) ==
    LET tr == task[t]
    IN  /\ tr.cmd \in {"connect", "api", "publish"}
        /\ tr.pc \notin {"idle", "done"}
        /\ ~tr.cancel
        /\ task' = [task EXCEPT ![t] = [tr EXCEPT !.cancel = TRUE]]
        /\ UNCHANGED <<envVars, treeVars, histVars, now, authVars, ctlVars, syncVars, ops>>

\* The command's promise has settled.
Finish(t) ==
    /\ task[t].pc = "done"
    /\ task' = [task EXCEPT ![t] = IdleTask]
    /\ UNCHANGED <<envVars, treeVars, histVars, now, authVars, ctlVars, syncVars, ops>>

\* The user saves the document of path p with the text content: the file is
\* written and the listener of registerFileStatusListeners (lines 136-141)
\* updates the record of the path, if it has one.
Save(p, content) ==
    LET state == fileSyncState[p]
        after == IF state = Absent THEN Absent
                 ELSE updateFilePublishStateOnSave(state, content)
    IN  /\ files' = [files EXCEPT ![p] = content]
        /\ fileSyncState' = [fileSyncState EXCEPT ![p] = after]
        /\ lastSave' = [lastSave EXCEPT ![p] =
               IF state = Absent THEN [had |-> FALSE, was |-> FALSE, is |-> FALSE]
               ELSE [had |-> TRUE, was |-> state.published, is |-> after.published]]
        /\ UNCHANGED <<envVars, treeVars, pulled, baseline, now, authVars, ctlVars, remote, task,
                       ops>>

\* The user dismisses the modal warning that the open command of task t showed.
Acknowledge(t) ==
    LET tr == task[t]
    IN  /\ tr.warned /\ ~tr.acked
        /\ task' = [task EXCEPT ![t] = [tr EXCEPT !.acked = TRUE]]
        /\ UNCHANGED <<envVars, treeVars, histVars, now, authVars, ctlVars, syncVars, ops>>

\* The user edits the setting webRM.appClientId.
ConfigChanged ==
    /\ appClientId' \in {"", "app"} \ {appClientId}
    /\ UNCHANGED <<histVars, authVars, ctlVars, syncVars, task, ops, now, connections,
                   connectionName, listing, treeVars>>

\* A minute passes.  The continuation of a call that has returned runs at
\* once, so no time passes between the return and the caller's next step.
Tick ==
    /\ now < MaxNow
    /\ \A t \in Tasks : ~Returned(task[t])
    /\ now' = now + 1
    /\ UNCHANGED <<histVars, authVars, ctlVars, syncVars, task, ops, envVars, treeVars>>

\* The flat list the server returns for the solution in the runs of commands.
ServerList == <<Descriptor(<<"a", "/", "B">>, 1)>>

\* The display names of the connections an earlier session stored.
StoredName(c) == IF c = "id1" THEN "dev" ELSE "test"

\* ------------------------------------------------------------ specification
\* The extension is activated with the connections cs in its global state and
\* a server whose solution holds the web resources flat: no provider is
\* initialized; the secret store and the workspace may hold what an earlier
\* session left.
Activated(cs, flat) ==
    /\ now = 0
    /\ initialized = [c \in Conns |-> FALSE]
    /\ account = [c \in Conns |-> None]
    /\ cache = [c \in Conns |-> {}]
    /\ cacheKey = [c \in Conns |-> None]
    /\ lastAuthResult = [c \in Conns |-> Absent]
    /\ secrets \in [SecretKeys -> {Absent} \cup {Serialize({a}) : a \in Accounts}]
    /\ \A c \in Conns \ cs : secrets[CacheKeyOf(c)] = Absent
    /\ currentConnection = None
    /\ isConnected = FALSE
    /\ webResourceLookup = NoLookup
    /\ fileSyncState = NoSyncState
    /\ files \in [Paths -> {None} \cup Contents]
    /\ remote = [r \in Resources |-> "v1"]
    /\ task = [t \in Tasks |-> IdleTask]
    /\ ops = 0
    /\ appClientId = "app"
    /\ clientApplication = [c \in Conns |-> None]
    /\ connections = cs
    /\ connectionName = [c \in Conns |-> IF c \in cs THEN StoredName(c) ELSE None]
    /\ listing = flat
    /\ rootWebResources = <<>>
    /\ built = NoBuild
    /\ lastSave = [p \in Paths |-> Absent]
    /\ pulled = [p \in Paths |-> None]
    /\ baseline = [p \in Paths |-> {}]

\* One connection is stored.
Init == Activated({"id1"}, ServerList)

\* One step of the command that task t runs.
Step(t) ==
    \/ \E c \in Conns : CmdConnect(t, c)
    \/ CmdGetWebResources(t)
    \/ CmdFilterSolutions(t)
    \/ \E p \in Paths : CmdPublish(t, p)
    \/ \E r \in Resources : CmdOpen(t, r)
    \/ AuthProvider_init(t)
    \/ Login_getAccount(t)
    \/ Login_silent(t)
    \/ GetToken_getAccount(t)
    \/ GetTokenSilent(t)
    \/ GetTokenInteractive(t)
    \/ PersistCache(t)
    \/ Login_return(t)
    \/ CmdConnect_authenticated(t)
    \/ CmdConnect_authFailed(t)
    \/ CmdConnect_solutions(t)
    \/ Request_send(t)
    \/ Request_authFailed(t)
    \/ Request_failed(t)
    \/ CmdGetWebResources_listed(t)
    \/ CmdFilterSolutions_input(t)
    \/ CmdFilterSolutions_connected(t)
    \/ CmdFilterSolutions_listed(t)
    \/ Command_authFailed(t)
    \/ CmdPublish_connected(t)
    \/ CmdPublish_read(t)
    \/ CmdPublish_updated(t)
    \/ CmdPublish_published(t)
    \/ CmdPublish_recorded(t)
    \/ CmdOpen_prepared(t)
    \/ CmdOpen_details(t)
    \/ CmdOpen_compared(t)
    \/ CmdOpen_written(t)
    \/ CmdOpen_accessed(t)
    \/ CmdOpen_shown(t)
    \/ CmdOpen_recorded(t)
    \/ Cancel(t)
    \/ Finish(t)

\* The commands run one at a time.
Next == Tick \/ Step(1)

Spec == Init /\ [][Next]_vars

\* The commands overlap: a second command starts while the first is suspended.
\* Only the commands that open a session are started, MaxOverlap of them.
StepSession(t) ==
    \/ \E c \in Conns : ops < MaxOverlap /\ CmdConnect(t, c)
    \/ ops < MaxOverlap /\ CmdGetWebResources(t)
    \/ AuthProvider_init(t)
    \/ Login_getAccount(t)
    \/ Login_silent(t)
    \/ GetToken_getAccount(t)
    \/ GetTokenSilent(t)
    \/ GetTokenInteractive(t)
    \/ PersistCache(t)
    \/ Login_return(t)
    \/ CmdConnect_authenticated(t)
    \/ CmdConnect_authFailed(t)
    \/ CmdConnect_solutions(t)
    \/ Request_send(t)
    \/ Request_authFailed(t)
    \/ Request_failed(t)
    \/ CmdGetWebResources_listed(t)
    \/ Finish(t)

NextOverlap == \E t \in Tasks : StepSession(t)

SpecOverlap == Init /\ [][NextOverlap]_vars

\* ================================================================== claims
\* C1: when a cached account exists and the silent acquisition fails with the
\* interaction-required error (every silent call of the login throws it; login
\* asks twice, in lines 186 and 256), the call of login has started exactly
\* one interactive acquisition when it returns, and what it returns is that
\* acquisition's result: its credential, or its failure.
C1_InteractiveFallback ==
    \A t \in Tasks :
        LET tr == task[t]
            h == tr.h
        IN  (Returned(tr) /\ h.errs = {"interaction_required"} /\ ~h.silentOk)
            => /\ h.nInter = 1
               /\ h.loginOk => tr.authResp = h.interRes
               /\ ~h.loginOk => h.interRes = Absent

\* C1 happens: a login whose silent calls threw interaction-required has
\* returned the credential of its one interactive acquisition.
C1_Witness ==
    \E t \in Tasks :
        /\ task[t].pc = "connect_ok"
        /\ task[t].h.errs = {"interaction_required"}
        /\ task[t].h.nSilent = 2
        /\ task[t].h.nInter = 1
        /\ task[t].authResp = task[t].h.interRes

\* C2: when a silent acquisition of a login fails with an error other than
\* interaction-required, the login fails and no acquisition is attempted after
\* that error.
C2_FatalSilentError ==
    \A t \in Tasks :
        LET tr == task[t]
        IN  (Returned(tr) /\ tr.h.fatal) => (~tr.h.loginOk /\ ~tr.h.afterFatal)

\* C3: when the login finds no account, neither in memory nor in the token
\* cache, it makes no silent acquisition call and starts the interactive one.
C3_NoAccountGoesInteractive ==
    \A t \in Tasks :
        LET tr == task[t]
        IN  (Returned(tr) /\ tr.h.noAcct) => (tr.h.nSilent = 0 /\ tr.h.nInter = 1)

\* C3 happens: a login without an account has returned the credential of the
\* interactive acquisition.
C3_Witness ==
    \E t \in Tasks :
        /\ task[t].pc = "connect_ok"
        /\ task[t].h.noAcct
        /\ task[t].h.nInter = 1
        /\ task[t].h.loginOk

\* C4: a credential that Connection.connect returns successfully expires
\* strictly later than the time at which it is returned.
C4_NeverExpired ==
    \A t \in Tasks :
        task[t].pc = "connect_ok" => task[t].authResp.expiresOn > now

\* C5: when the stored token is still valid and outside the renewal buffer at
\* the time Connection.connect is called, the call makes no silent and no
\* interactive acquisition call.
C5_CacheHit ==
    \A t \in Tasks :
        LET tr == task[t]
        IN  (Returned(tr) /\ tr.h.stored = "fresh")
            => (tr.h.nSilent = 0 /\ tr.h.nInter = 0)

\* C6: when Connection.connect is called with no expiry known, or with
\* now > expiresAt - 5 minutes (expired, or inside the renewal buffer), and it
\* returns successfully, an acquisition has returned a credential during the
\* call.
C6_ProactiveRenewal ==
    \A t \in Tasks :
        LET tr == task[t]
        IN  (tr.pc = "connect_ok" /\ tr.h.stored # "fresh") => tr.h.nOk >= 1

\* C6 happens: connect was called with a stored token that had not expired but
\* was inside the renewal buffer, and has returned a newly acquired credential.
C6_Witness ==
    \E t \in Tasks :
        /\ task[t].pc = "connect_ok"
        /\ task[t].h.stored = "buffer"
        /\ task[t].h.nOk = 1

\* C7: when login returns a credential, the credential store holds, under the
\* connection's key, a serialized token cache that lists the credential's
\* account.
C7_PersistedBeforeReturn ==
    \A t \in Tasks :
        LET tr == task[t]
            blob == secrets[CacheKeyOf(tr.conn)]
        IN  (Returned(tr) /\ tr.h.loginOk)
            => (blob # Absent /\ tr.authResp.account \in Deserialize(blob))

\* C7 happens: an interactive acquisition has succeeded and login has returned
\* its credential, with the cache written to the store.
C7_Witness ==
    \E t \in Tasks :
        /\ Returned(task[t])
        /\ task[t].h.loginOk
        /\ task[t].h.interRes # Absent
        /\ secrets[CacheKeyOf(task[t].conn)] = Serialize({task[t].authResp.account})

\* C8: after a command has ended with an authentication failure of the current
\* connection, isConnected is false.
C8_AuthFailureDisconnects ==
    \A t \in Tasks :
        (task[t].pc = "done" /\ task[t].out = "authfail") => ~isConnected

\* C9: at most one interactive acquisition is in flight per connection.
C9_SingleFlight ==
    \A c \in Conns :
        Cardinality({t \in Tasks : task[t].pc = "inter_wait" /\ task[t].conn = c}) <= 1

\* C10: a connect or publish command that the user cancelled and that stopped
\* on the cancellation has changed neither the AuthSession nor any SyncRecord.
C10_CancelLeavesState ==
    \A t \in Tasks :
        (task[t].pc = "done" /\ task[t].out = "cancelled" /\
         task[t].cmd \in {"connect", "publish"})
        => task[t].wrote = {}

\* The provider is used directly: init is called at any time, also while a
\* connect command is running, and the client id setting is edited.
StepInit(t) ==
    \/ \E c \in connections : ops < MaxOverlap /\ AuthProvider_init_call(t, c)
    \/ \E c \in connections : ops < MaxOverlap /\ CmdConnect(t, c)
    \/ AuthProvider_init(t)
    \/ Login_getAccount(t)
    \/ Login_silent(t)
    \/ GetToken_getAccount(t)
    \/ GetTokenSilent(t)
    \/ GetTokenInteractive(t)
    \/ PersistCache(t)
    \/ Login_return(t)
    \/ CmdConnect_authenticated(t)
    \/ CmdConnect_authFailed(t)
    \/ CmdConnect_solutions(t)
    \/ Request_send(t)
    \/ Request_authFailed(t)
    \/ Request_failed(t)
    \/ Finish(t)

NextInit == ConfigChanged \/ \E t \in Tasks : StepInit(t)

SpecInit == Init /\ [][NextInit]_vars

\* C11: a call of init on a provider that is already initialized has no
\* effect: when it has completed, the provider still has the client
\* application and holds the accounts it had when init was called.
C11_InitIdempotent ==
    \A t \in Tasks :
        LET tr == task[t]
        IN  (tr.pc = "done" /\ tr.out = "reinit")
            => /\ tr.snap.accounts \subseteq cache[tr.conn]
               /\ tr.snap.app = clientApplication[tr.conn]

\* C12: with the client id missing init fails: no provider is initialized with
\* a client application built without a client id, and no acquisition is
\* attempted with one.
C12_MissingClientId ==
    /\ \A c \in Conns : initialized[c] => clientApplication[c] # ""
    /\ \A t \in Tasks :
          task[t].pc \in {"silent1", "silent2", "inter_wait"}
          => clientApplication[task[t].conn] # ""

\* C13: whenever the session of a connection holds an access token it holds an
\* expiry.
C13_TokenHasExpiry ==
    \A c \in Conns :
        getAccessToken(c) \notin {None, ""} => getTokenExpiration(c) # NoExpiry

\* Two connections are stored; the commands that open, use and remove a
\* session run one at a time on either of them.
InitConnections == Activated(Conns, ServerList)

StepConnections(t) ==
    \/ \E c \in Conns : CmdConnect(t, c)
    \/ \E c \in Conns : CmdRemoveConnection(t, c)
    \/ CmdRemoveConnection_saved(t)
    \/ CmdGetWebResources(t)
    \/ AuthProvider_init(t)
    \/ Login_getAccount(t)
    \/ Login_silent(t)
    \/ GetToken_getAccount(t)
    \/ GetTokenSilent(t)
    \/ GetTokenInteractive(t)
    \/ PersistCache(t)
    \/ Login_return(t)
    \/ CmdConnect_authenticated(t)
    \/ CmdConnect_authFailed(t)
    \/ CmdConnect_solutions(t)
    \/ Request_send(t)
    \/ Request_authFailed(t)
    \/ Request_failed(t)
    \/ CmdGetWebResources_listed(t)
    \/ Finish(t)

NextConnections == StepConnections(1)

SpecConnections == InitConnections /\ [][NextConnections]_vars

\* C14: a step never changes the account, the access token and expiry, or the
\* persisted credential-cache entry of a connection other than the one the
\* running command works on.
C14_ConnectionsIsolated ==
    [][\A c \in Conns :
          (\/ account'[c] # account[c]
           \/ lastAuthResult'[c] # lastAuthResult[c]
           \/ secrets'[CacheKeyOf(c)] # secrets[CacheKeyOf(c)])
          => \E t \in Tasks : task'[t] # task[t] /\ task[t].conn = c]_vars

\* C14 happens: both connections have logged in and persisted their caches,
\* and hold different credentials.
C14_Witness ==
    \E c1, c2 \in Conns :
        /\ c1 # c2
        /\ lastAuthResult[c1] # Absent /\ lastAuthResult[c2] # Absent
        /\ lastAuthResult[c1] # lastAuthResult[c2]
        /\ secrets[CacheKeyOf(c1)] # Absent /\ secrets[CacheKeyOf(c2)] # Absent

\* ------------------------------------------------------------ the tree builder
\* The explorer is used directly on every flat list a server can return: the
\* list is set, set again, cleared, and the server loses its last record.
InitTree ==
    /\ \E n \in 0..MaxList : \E f \in [1..n -> Names] : Activated({"id1"}, Listing(f, n))
    /\ \A k \in SecretKeys : secrets[k] = Absent
    /\ \A p \in Paths : files[p] = None

SetWebResources ==
    /\ Explorer_set(listing)
    /\ UNCHANGED <<envVars, histVars, now, authVars, ctlVars, syncVars, task, ops>>

ClearWebResources ==
    /\ clearWebResources
    /\ UNCHANGED <<envVars, histVars, now, authVars, ctlVars, syncVars, task, ops>>

ServerDeletes ==
    /\ listing # <<>>
    /\ listing' = SubSeq(listing, 1, Len(listing) - 1)
    /\ UNCHANGED <<histVars, appClientId, connections, connectionName, treeVars, now, authVars,
                   ctlVars, syncVars, task, ops>>

NextTree == SetWebResources \/ ClearWebResources \/ ServerDeletes

SpecTree == InitTree /\ [][NextTree]_vars

\* The file nodes of a tree, as the descriptors they carry.
RECURSIVE Leaves(_)
Leaves(children) ==
    IF children = <<>> THEN <<>>
    ELSE LET n == Head(children)
         IN  (IF n.type = "file"
              THEN <<[webResourceName |-> n.webResourceName,
                      webResourceId |-> n.webResourceId]>>
              ELSE Leaves(n.children)) \o Leaves(Tail(children))

\* The folder nodes of a tree.
RECURSIVE Folders(_)
Folders(children) ==
    IF children = <<>> THEN <<>>
    ELSE LET n == Head(children)
         IN  (IF n.type = "folder" THEN <<n>> \o Folders(n.children) ELSE <<>>)
             \o Folders(Tail(children))

\* C15: the tree holds exactly one file node per descriptor of the list it
\* was built from, with that descriptor's id and full name; descriptors of
\* the same name are not merged.
C15_OneLeafPerDescriptor ==
    LET leaves == Leaves(rootWebResources)
    IN  /\ Len(leaves) = Len(built.flat)
        /\ \A k \in DOMAIN built.flat : \E i \in DOMAIN leaves : leaves[i] = built.flat[k]

\* C15 happens: a tree was built from a list of three descriptors, two of
\* which have the same name.
C15_Witness ==
    /\ built.calls >= 1
    /\ Len(built.flat) = 3
    /\ built.flat[1].webResourceName = built.flat[3].webResourceName
    /\ built.flat[1].webResourceName # built.flat[2].webResourceName
    /\ Len(Leaves(rootWebResources)) = 3

\* The children are in order: no file before a folder, and within the folders
\* and within the files no display name before one that is smaller when both
\* are lower-cased; and so are the children of every folder among them.
RECURSIVE SortedDeep(_)
SortedDeep(children) ==
    /\ \A i, j \in DOMAIN children :
           i < j =>
               /\ ~(children[i].type = "file" /\ children[j].type = "folder")
               /\ children[i].type = children[j].type =>
                      ~StringLess(toLowerCase(children[j].fileName),
                                  toLowerCase(children[i].fileName))
    /\ \A k \in DOMAIN children :
           children[k].type = "folder" => SortedDeep(children[k].children)

\* C16: after setWebResources the children of the root and of every folder at
\* every depth are ordered folders first and, within the folders and within
\* the files, by display name without regard to case.
C16_SortedAtEveryDepth == SortedDeep(rootWebResources)

\* C16 happens: the list gave B before a in a folder (and a file before that
\* folder), and the tree shows the folder first and in it a before B.
C16_Witness ==
    /\ built.calls >= 1
    /\ built.flat = <<Descriptor(<<"B">>, 1), Descriptor(<<"a", "/", "B">>, 2),
                      Descriptor(<<"a", "/", "a">>, 3)>>
    /\ Len(rootWebResources) = 2
    /\ rootWebResources[1].type = "folder"
    /\ rootWebResources[1].children[1].webResourceId = "r3"
    /\ rootWebResources[1].children[2].webResourceId = "r2"
    /\ rootWebResources[2].webResourceId = "r1"

\* Every node under the folders named by prefix has a display name without
\* '/', and a logical name that joins the prefix and the display name; no two
\* folders of one parent have the same display name.
RECURSIVE PlacedUnder(_, _)
PlacedUnder(children, prefix) ==
    /\ \A k \in DOMAIN children :
           LET n == children[k]
           IN  /\ \A i \in DOMAIN n.fileName : n.fileName[i] # "/"
               /\ n.webResourceName = Join(Append(prefix, n.fileName))
               /\ n.type = "folder" => PlacedUnder(n.children, Append(prefix, n.fileName))
    /\ \A j, k \in DOMAIN children :
           (j # k /\ children[j].type = "folder" /\ children[k].type = "folder")
               => children[j].fileName # children[k].fileName

\* C17: every file node is reached from the root through the folders named by
\* the non-final segments of its logical name, in order, and is displayed
\* under its final segment; a name without '/' is a child of the root.
C17_Placement == PlacedUnder(rootWebResources, <<>>)

\* C17 happens: [a/B/a, a/a] was built into root -> a -> [B -> [a], a].
C17_Witness ==
    /\ built.flat = <<Descriptor(<<"a", "/", "B", "/", "a">>, 1),
                      Descriptor(<<"a", "/", "a">>, 2)>>
    /\ rootWebResources =
         <<[WebResource(<<"a">>, "", <<"a">>, "folder") EXCEPT !.children =
              <<[WebResource(<<"a", "/", "B">>, "", <<"B">>, "folder") EXCEPT !.children =
                   <<WebResource(<<"a", "/", "B", "/", "a">>, "r1", <<"a">>, "file")>>],
                WebResource(<<"a", "/", "a">>, "r2", <<"a">>, "file")>>]>>

\* C18: a second call of setWebResources with the list of the call before it
\* leaves the tree as the first call built it.
C18_RebuildIdempotent ==
    [][built'.calls = 2 => rootWebResources' = rootWebResources]_vars

\* C18 happens: setWebResources ran twice on the same list of two or more
\* descriptors.
C18_Witness ==
    /\ built.calls = 2
    /\ Len(built.flat) >= 2
    /\ rootWebResources # <<>>

\* A logical name that is empty or has an empty segment.
Malformed(name) ==
    \/ name = <<>>
    \/ name[1] = "/"
    \/ name[Len(name)] = "/"
    \/ \E i \in 1..(Len(name) - 1) : name[i] = "/" /\ name[i + 1] = "/"

\* C19: a descriptor with a malformed name gets no node: the tree has no file
\* node with its id and no folder with an empty display name, and every other
\* descriptor has its file node.
C19_MalformedSkipped ==
    LET leaves == Leaves(rootWebResources)
        folders == Folders(rootWebResources)
    IN  /\ \A k \in DOMAIN built.flat :
               Malformed(built.flat[k].webResourceName)
                   <=> ~\E i \in DOMAIN leaves :
                           leaves[i].webResourceId = built.flat[k].webResourceId
        /\ \A i \in DOMAIN folders : folders[i].fileName # <<>>

\* C20: opening a web resource that has no local file raises no conflict
\* warning, whoever modified it last on the server and whatever its content.
C20_NoWarningWithoutLocalFile ==
    \A t \in Tasks :
        (task[t].cmd = "open" /\ task[t].warned) => task[t].local # None

\* ------------------------------------------------------------ file sync
\* The commands that pull, publish and reconnect run one at a time, while the
\* user saves documents and dismisses warnings at any moment.
StepSync(t) ==
    \/ \E c \in Conns : CmdConnect(t, c)
    \/ \E c \in Conns : CmdRemoveConnection(t, c)
    \/ CmdRemoveConnection_saved(t)
    \/ \E p \in Paths : CmdPublish(t, p)
    \/ \E r \in Resources : CmdOpen(t, r)
    \/ AuthProvider_init(t)
    \/ Login_getAccount(t)
    \/ Login_silent(t)
    \/ GetToken_getAccount(t)
    \/ GetTokenSilent(t)
    \/ GetTokenInteractive(t)
    \/ PersistCache(t)
    \/ Login_return(t)
    \/ CmdConnect_authenticated(t)
    \/ CmdConnect_authFailed(t)
    \/ CmdConnect_solutions(t)
    \/ Request_send(t)
    \/ Request_authFailed(t)
    \/ Request_failed(t)
    \/ Command_authFailed(t)
    \/ CmdPublish_connected(t)
    \/ CmdPublish_read(t)
    \/ CmdPublish_updated(t)
    \/ CmdPublish_published(t)
    \/ CmdPublish_recorded(t)
    \/ CmdOpen_prepared(t)
    \/ CmdOpen_details(t)
    \/ CmdOpen_compared(t)
    \/ CmdOpen_written(t)
    \/ CmdOpen_accessed(t)
    \/ CmdOpen_shown(t)
    \/ CmdOpen_recorded(t)
    \/ Acknowledge(t)
    \/ Finish(t)

NextSync == (\E p \in Paths, content \in Contents : Save(p, content)) \/ StepSync(1)

SpecSync == Init /\ [][NextSync]_vars

\* The open command of task t has compared the local file with the details.
Compared(t) == task[t].cmd = "open" /\ task[t].pc \in {"open_write", "open_access"}

\* C21: an open command that finds the local file's content equal to the
\* server's content shows no warning, whoever modified the web resource last.
C21_NoWarningOnEqualContent ==
    \A t \in Tasks :
        (task[t].cmd = "open" /\ task[t].warned)
            => ~(task[t].local # None /\ task[t].local = task[t].data)

\* C21 happens: the contents are equal, the web resource was last modified by
\* another user than the one signed in, and no warning was shown.
C21_Witness ==
    \E t \in Tasks :
        /\ Compared(t)
        /\ task[t].local # None /\ task[t].local = task[t].data
        /\ task[t].user # None /\ task[t].by # task[t].user
        /\ ~task[t].warned

C23_OverwriteAfterAcknowledgment ==
    \A t \in Tasks :
        (/\ task[t].cmd = "open" /\ task[t].warned /\ task[t].pull
         /\ task[t].pc \in {"open_show", "open_hash"})
            => task[t].acked

\* C24: when an open command completes, the sync record of its path has the
\* id of the web resource, published = true and the hash of the content that
\* is in the local file.
C24_RecordAfterPull ==
    [][\A t \in Tasks :
          (task[t].pc = "open_hash" /\ task'[t].pc = "done")
              => fileSyncState'[task[t].path] =
                     [guid |-> task[t].rid, published |-> TRUE,
                      hash |-> computeFileHash(files'[task[t].path])]]_vars

\* A step of the user saving a document: no command moves, and a file or a
\* record changes.
SaveStep == task' = task /\ (files' # files \/ fileSyncState' # fileSyncState)

\* C25: a save of a path with a sync record sets published to whether the
\* hash of the saved content is the recorded hash, and keeps the id and the
\* hash of the record; a save of a path without a record creates none.
C25_OnLocalSave ==
    [][SaveStep =>
          \A p \in Paths :
              (files'[p] # files[p] \/ fileSyncState'[p] # fileSyncState[p]) =>
                  IF fileSyncState[p] = Absent
                  THEN fileSyncState'[p] = Absent
                  ELSE fileSyncState'[p] =
                           [guid |-> fileSyncState[p].guid,
                            hash |-> fileSyncState[p].hash,
                            published |->
                                (computeFileHash(files'[p]) = fileSyncState[p].hash)]]_vars

\* C25 happens: the last save of a path found its record published and left it
\* unpublished; the file holds a content other than the recorded one.
C25_Witness ==
    \E p \in Paths :
        /\ lastSave[p] = [had |-> TRUE, was |-> TRUE, is |-> FALSE]
        /\ fileSyncState[p] # Absent
        /\ ~fileSyncState[p].published
        /\ fileSyncState[p].hash # computeFileHash(files[p])

\* C26: a save with a content whose hash is not the recorded one makes a
\* published record unpublished and keeps its hash; a publish command that
\* succeeds for the content in the file makes the record published with the
\* hash of the content it sent.
C26_SaveThenPublish ==
    [][/\ SaveStep =>
              \A p \in Paths :
                  (/\ fileSyncState[p] # Absent
                   /\ fileSyncState[p].published
                   /\ computeFileHash(files'[p]) # fileSyncState[p].hash)
                      => /\ ~fileSyncState'[p].published
                         /\ fileSyncState'[p].hash = fileSyncState[p].hash
       /\ \A t \in Tasks :
              (/\ task[t].pc = "pub_reread" /\ task'[t].pc = "done"
               /\ files[task[t].path] = task[t].data)
                  => fileSyncState'[task[t].path] =
                         [guid |-> task[t].rid, published |-> TRUE,
                          hash |-> computeFileHash(task[t].data)]]_vars

\* C26 happens: a published record was made unpublished by a save of v2, and
\* the publish command that followed has sent v2 and recorded its hash.
C26_Witness ==
    \E t \in Tasks, p \in Paths :
        /\ task[t].pc = "done" /\ task[t].cmd = "publish" /\ task[t].out = "ok"
        /\ lastSave[p] = [had |-> TRUE, was |-> TRUE, is |-> FALSE]
        /\ fileSyncState[p] = [guid |-> "r1", published |-> TRUE,
                               hash |-> computeFileHash("v2")]
        /\ remote["r1"] = "v2"

C28_RecordsConnectionScoped ==
    \A t \in Tasks :
        (task[t].pc = "done" /\ task[t].cmd = "connect") => fileSyncState = NoSyncState

\* C29: an open command in which recording the sync state failed ends with
\* the error reported to its caller.
C29_RecordFailurePropagates ==
    \A t \in Tasks :
        (task[t].pc = "done" /\ task[t].cmd = "open" /\ task[t].failed)
            => task[t].out # "ok"

\* C30: when the removal of a connection has completed, the secret store holds
\* no credential cache for its id.
C30_RemovalDeletesCache ==
    \A t \in Tasks :
        (task[t].pc = "done" /\ task[t].cmd = "remove")
            => secrets[CacheKeyOf(task[t].conn)] = Absent

\* ------------------------------------------------------- ConnectionExplorer
\* addItem line 87: findIndex(c => c.getConnectionName() === name) !== -1.
nameInUse_never(name) == FALSE
nameInUse(name) == \E c \in connections : connectionName[c] = name

\* The ids uuidv1 can give to a new Connection (constructor, lines 207-217): an
\* id no connection has and nothing is stored or held under.
FreshIds ==
    {c \in Conns \ connections :
        /\ ~initialized[c] /\ account[c] = None /\ lastAuthResult[c] = Absent
        /\ secrets[CacheKeyOf(c)] = Absent}

\* wrm.addConnection, the saveConnection message of the form (lines 129-147),
\* and addItem lines 85-99: with a name no connection has, a new Connection is
\* pushed and the update of the global state is awaited; otherwise addItem
\* returns false and the form shows the error.
CmdAddConnection(t, name) ==
    LET tr == [IdleTask EXCEPT !.cmd = "add", !.name = name]
    IN  /\ task[t].pc = "idle"
        /\ ops < MaxOps
        /\ ops' = ops + 1
        /\ IF nameInUse(name)
           THEN /\ task' = [task EXCEPT ![t] = Done(tr, "duplicate")]
                /\ UNCHANGED <<connections, connectionName>>
           ELSE \E c \in FreshIds :
                   /\ connections' = connections \cup {c}
                   /\ connectionName' = [connectionName EXCEPT ![c] = name]
                   /\ task' = [task EXCEPT ![t] =
                          [tr EXCEPT !.pc = "add_saved", !.conn = c]]
        /\ UNCHANGED <<histVars, now, authVars, ctlVars, syncVars, appClientId, listing,
                       treeVars>>

\* addItem lines 99-101: the global state is updated and addItem returns true,
\* or the update rejects and the form shows the failure; the connection stays
\* in the list either way.
CmdAddConnection_saved(t) ==
    LET tr == task[t]
    IN  /\ tr.pc = "add_saved"
        /\ \E saved \in BOOLEAN :
              task' = [task EXCEPT ![t] = Done(tr, IF saved THEN "ok" ELSE "fail")]
        /\ UNCHANGED <<envVars, treeVars, histVars, now, authVars, ctlVars, syncVars, ops>>

\* The connection explorer is used directly: connections are added and
\* removed, also while an earlier addition or removal awaits the global state.
InitExplorer == \E cs \in SUBSET Conns : Activated(cs, ServerList)

StepExplorer(t) ==
    \/ \E name \in Labels : CmdAddConnection(t, name)
    \/ CmdAddConnection_saved(t)
    \/ \E c \in Conns : CmdRemoveConnection(t, c)
    \/ CmdRemoveConnection_saved(t)
    \/ Finish(t)

NextExplorer == \E t \in Tasks : StepExplorer(t)

SpecExplorer == InitExplorer /\ [][NextExplorer]_vars

\* C31: no two registered connections have the same name, and an addition
\* with a name that a registered connection has ends without a change of the
\* connection list.
C31_NamesUnique ==
    /\ [](\A c1, c2 \in connections :
             c1 # c2 => connectionName[c1] # connectionName[c2])
    /\ [][\A t \in Tasks :
             (task[t].pc = "idle" /\ task'[t].cmd = "add" /\
              \E c \in connections : connectionName[c] = task'[t].name)
                 => /\ task'[t].out = "duplicate"
                    /\ connections' = connections
                    /\ connectionName' = connectionName]_vars

\* C31 happens: with two connections of different names registered, an
\* addition under the name of one of them has been refused.
C31_Witness ==
    \E t \in Tasks :
        /\ task[t].pc = "done" /\ task[t].cmd = "add" /\ task[t].out = "duplicate"
        /\ Cardinality(connections) = 2
        /\ \E c \in connections : connectionName[c] = "dev"
        /\ \E c \in connections : connectionName[c] = "test"

\* C32: whenever the controller reports connected, a current connection is
\* set and the provider of that connection holds the result of a successful
\* authentication, also while a connect to another connection is in progress.
C32_ConnectedMeansAuthenticated ==
    isConnected =>
        /\ currentConnection # None
        /\ lastAuthResult[currentConnection] # Absent

\* C33: a sync record that says published holds the hash of a content that
\* was pulled from or published to the server for its path; a file opened
\* without a pull does not become published by being saved.
C33_NoFalseInSync ==
    \A p \in Paths :
        (fileSyncState[p] # Absent /\ fileSyncState[p].published)
            => \E v \in baseline[p] : fileSyncState[p].hash = computeFileHash(v)

\* C34: when a publish command completes successfully, the record of its path
\* is published with the hash of the content the command sent to the server,
\* whatever was saved to the file while the requests were in flight.
C34_PublishedHashIsSentContent ==
    [][\A t \in Tasks :
          (task[t].pc = "pub_reread" /\ task'[t].pc = "done")
              => /\ fileSyncState'[task[t].path].published
                 /\ fileSyncState'[task[t].path].hash = computeFileHash(task[t].data)]_vars

\* ------------------------------------------------------ connection switch
\* Two connections are stored.  The user connects, one connection after the
\* other, and meanwhile opens a web resource: the open command overlaps the
\* connect commands.
StepSwitch(t) ==
    \/ \E c \in Conns : t = 2 /\ CmdConnect(t, c)
    \/ \E r \in Resources : t = 1 /\ CmdOpen(t, r)
    \/ AuthProvider_init(t)
    \/ Login_getAccount(t)
    \/ Login_silent(t)
    \/ GetToken_getAccount(t)
    \/ GetTokenSilent(t)
    \/ GetTokenInteractive(t)
    \/ PersistCache(t)
    \/ Login_return(t)
    \/ CmdConnect_authenticated(t)
    \/ CmdConnect_authFailed(t)
    \/ CmdConnect_solutions(t)
    \/ Request_send(t)
    \/ Request_authFailed(t)
    \/ Request_failed(t)
    \/ CmdOpen_prepared(t)
    \/ CmdOpen_details(t)
    \/ CmdOpen_compared(t)
    \/ CmdOpen_written(t)
    \/ CmdOpen_accessed(t)
    \/ CmdOpen_shown(t)
    \/ CmdOpen_recorded(t)
    \/ Finish(t)

NextSwitch == \E t \in Tasks : StepSwitch(t)

\* A first session: nothing is in the secret store or in the workspace yet.
InitSwitch ==
    /\ InitConnections
    /\ \A k \in SecretKeys : secrets[k] = Absent
    /\ \A p \in Paths : files[p] = None

SpecSwitch == InitSwitch /\ [][NextSwitch]_vars

\* A connect command to connection c has completed and c is current.
Switched(c) ==
    /\ currentConnection = c
    /\ isConnected
    /\ \E u \in Tasks :
          task[u].cmd = "connect" /\ task[u].conn = c /\ task[u].pc = "done" /\
          task[u].out = "ok"

\* C35: an open command that requested the web resource under one connection
\* and goes on after a connect to another connection has completed adds no
\* linkage and no sync record.
C35_OpenAcrossSwitch ==
    [][\A t \in Tasks :
          (/\ task[t].cmd = "open" /\ task'[t] # task[t]
           /\ task[t].conn # None
           /\ \E c \in Conns \ {task[t].conn} : Switched(c))
              => /\ webResourceLookup' = webResourceLookup
                 /\ fileSyncState' = fileSyncState]_vars

\* C36: every path that has a sync record is linked, in the controller's
\* lookup, to the web resource id of that record.
C36_RecordsAreLinked ==
    \A p \in Paths :
        fileSyncState[p] # Absent => webResourceLookup[p] = fileSyncState[p].guid

\* ------------------------------------------- ensureActiveConnectionIsValid
\* Lines 166-167: the error the catch throws is built from the name of
\* this.currentConnection as it is when the throw statement runs; reading the
\* name of undefined throws a TypeError instead.
ValidationError(conn) ==
    IF conn = None
    THEN [out |-> "TypeError", name |-> None]
    ELSE [out |-> "validation", name |-> connectionName[conn]]

\* ensureActiveConnectionIsValid up to its first await (lines 139-148):
\* without a current connection it throws, otherwise the connection connects.
Ensure(t) ==
    LET c == currentConnection
        tr == [IdleTask EXCEPT !.cmd = "ensure", !.conn = c, !.phase = 1]
    IN  /\ task[t].pc = "idle"
        /\ ops < MaxOps
        /\ ops' = ops + 1
        /\ IF c = None
           THEN /\ task' = [task EXCEPT ![t] = Done(tr, "noconn")]
                /\ UNCHANGED <<cache, clientApplication>>
           ELSE Call_connect(t, tr, c)
        /\ UNCHANGED <<envVars, treeVars, histVars, now, initialized, account, cacheKey,
                       lastAuthResult, secrets, ctlVars, syncVars>>

\* Lines 150-156: connect returned; the controller is connected.
Ensure_validated(t) ==
    LET tr == task[t]
    IN  /\ tr.pc = "connect_ok" /\ tr.cmd = "ensure"
        /\ isConnected' = TRUE
        /\ task' = [task EXCEPT ![t] = Done(tr, "ok")]
        /\ UNCHANGED <<envVars, treeVars, histVars, now, authVars, currentConnection,
                       webResourceLookup, syncVars, ops>>

\* Lines 158-168: connect threw; the catch disconnects and then throws.
Ensure_failed(t) ==
    LET tr == task[t]
    IN  /\ tr.pc = "connect_fail" /\ tr.cmd = "ensure"
        /\ disconnect
        /\ LET thrown == ValidationError(currentConnection')
           IN  task' = [task EXCEPT ![t] =
                   Done([tr EXCEPT !.name = thrown.name], thrown.out)]
        /\ UNCHANGED <<envVars, treeVars, histVars, now, authVars, syncVars, ops>>

\* The user connects, and the active connection is validated at any time
\* between the commands.
StepEnsure(t) ==
    \/ \E c \in Conns : CmdConnect(t, c)
    \/ Ensure(t)
    \/ Ensure_validated(t)
    \/ Ensure_failed(t)
    \/ AuthProvider_init(t)
    \/ Login_getAccount(t)
    \/ Login_silent(t)
    \/ GetToken_getAccount(t)
    \/ GetTokenSilent(t)
    \/ GetTokenInteractive(t)
    \/ PersistCache(t)
    \/ Login_return(t)
    \/ CmdConnect_authenticated(t)
    \/ CmdConnect_authFailed(t)
    \/ CmdConnect_solutions(t)
    \/ Request_send(t)
    \/ Request_authFailed(t)
    \/ Request_failed(t)
    \/ Finish(t)

NextEnsure == Tick \/ StepEnsure(1)

SpecEnsure == Init /\ [][NextEnsure]_vars

\* C37: when the validation of the current connection has failed, the
\* controller is disconnected and the error thrown is the validation error
\* that names the connection.
C37_ValidationFailure ==
    \A t \in Tasks :
        (task[t].pc = "done" /\ task[t].cmd = "ensure" /\
         task[t].out \notin {"ok", "noconn"})
            => /\ currentConnection = None
               /\ ~isConnected
               /\ webResourceLookup = NoLookup
               /\ task[t].out = "validation"
               /\ task[t].name = connectionName[task[t].conn]

\* C38: a request is sent only by a call of makeApiRequest whose
\* Connection.connect has returned successfully, and with a non-empty access
\* token of the connection; a call whose connect failed sends nothing and
\* ends with the failure.
C38_RequestAfterConnect ==
    [][\A t \in Tasks :
          /\ (task'[t].pc = "fetch" /\ task[t].pc # "fetch")
                => /\ task[t].pc = "connect_ok"
                   /\ getAccessToken(task[t].conn) \notin {None, ""}
          /\ (task[t].pc = "connect_fail" /\ InRequest(task[t]) /\
              task'[t].pc # "connect_fail")
                => /\ task'[t].pc = "done"
                   /\ task'[t].out = "authfail"]_vars

\* C38 happens: the request of wrm.getWebResources is in flight with the
\* token of the current connection.
C38_Witness ==
    \E t \in Tasks :
        /\ task[t].pc = "fetch" /\ task[t].cmd = "api"
        /\ getAccessToken(task[t].conn) = "tok"

\* C39: the PublishXml request of a publish command starts only with the
\* step in which its update request has succeeded and the server holds the
\* content; a publish command that ends while its update is pending changes no
\* sync record.
C39_PublishAfterUpdate ==
    [][\A t \in Tasks :
          /\ (task'[t].phase = 3 /\ task[t].phase # 3)
                => /\ task[t].cmd = "publish" /\ task[t].pc = "fetch" /\ task[t].phase = 2
                   /\ remote'[task[t].rid] = task[t].data
          /\ (task[t].cmd = "publish" /\ task[t].phase = 2 /\ task'[t].pc = "done")
                => fileSyncState' = fileSyncState]_vars

\* C39 happens: the update of v2 has succeeded, the server holds v2, and the
\* PublishXml request is in flight.
C39_Witness ==
    \E t \in Tasks :
        /\ task[t].cmd = "publish" /\ task[t].phase = 3 /\ task[t].pc = "fetch"
        /\ task[t].data = "v2" /\ remote[task[t].rid] = "v2"

\* No two folders among the children have the same display name, and neither
\* have two folders in any folder among them.
RECURSIVE NoTwinFolders(_)
NoTwinFolders(children) ==
    /\ \A j, k \in DOMAIN children :
           (j # k /\ children[j].type = "folder" /\ children[k].type = "folder")
               => children[j].fileName # children[k].fileName
    /\ \A k \in DOMAIN children :
           children[k].type = "folder" => NoTwinFolders(children[k].children)

\* The folder paths of a flat list: for every descriptor, the proper prefixes
\* of the segments of its name.
FolderPaths(flat) ==
    UNION {{SubSeq(split(flat[k].webResourceName), 1, i) :
               i \in 1..(Len(split(flat[k].webResourceName)) - 1)} : k \in DOMAIN flat}

\* C40: no folder of the tree, and not the root, has two child folders of the
\* same display name, and the tree has one folder node for every folder path
\* of the list it was built from, so that descriptors sharing a folder path
\* are under the same node.
C40_FoldersMerged ==
    /\ NoTwinFolders(rootWebResources)
    /\ Len(Folders(rootWebResources)) = Cardinality(FolderPaths(built.flat))

\* C40 happens: the list named a/a, B and a/B, and the tree has the one folder
\* a with both files of that folder, and B beside it.
C40_Witness ==
    /\ built.calls >= 1
    /\ built.flat = <<Descriptor(<<"a", "/", "a">>, 1), Descriptor(<<"B">>, 2),
                      Descriptor(<<"a", "/", "B">>, 3)>>
    /\ Len(Folders(rootWebResources)) = 1
    /\ Len(rootWebResources) = 2
    /\ Len(rootWebResources[1].children) = 2

====
